---- MODULE Spec2Model ----
(***************************************************************************)
(* Wannier90WorkChain (workflows/wannier90.py): the outline of the         *)
(* workchain, its input validation, the derivation of the wannier90        *)
(* parameters from the outputs of the earlier steps, and the clean-up on   *)
(* termination.                                                            *)
(*                                                                         *)
(* Energies are integers in units of 1e-4 eV.  A python dict is a function *)
(* whose DOMAIN is the set of its keys; an Optional value is the empty     *)
(* sequence (None) or a one-element sequence.                              *)
(***************************************************************************)
EXTENDS Integers, Sequences, FiniteSets, TLC

VARIABLES
    inputs,       \* self.inputs: the input namespace given to the workchain
    state,        \* process state: new, rejected, running, waiting, finished, excepted
    pc,           \* the outline step that runs next
    exit_status,  \* exit status of the workchain, 0 when none was returned
    exception,    \* the exception that ended the workchain, "" when none
    ctx,          \* self.ctx
    awaiting,     \* awaitables registered by ToContext, not yet resolved
    proc,         \* the sub-processes submitted: state and outputs
    calcjobs,     \* number of CalcJobNodes among the called descendants
    submitted,    \* the stages in the order self.submit was called for them
    entered,      \* the outline steps whose body has been executed
    w90_params,   \* the wannier90 parameters given to each submitted wannier90 step
    p2w_params,   \* the pw2wannier90 parameters submitted
    outputs,      \* output namespaces attached by results
    computed,     \* what results computed from the structure and the pseudos
    validation,   \* what validate_inputs answered when the process was created
    cleaned,      \* calcjobs whose remote work directory has been cleaned
    clean_raised, \* calcjobs whose _clean() raised in on_terminated
    call,         \* a function or command called on its own: its name and arguments
    ret           \* what that call has returned or done so far

vars == <<inputs, state, pc, exit_status, exception, ctx, awaiting, proc, calcjobs,
          submitted, entered, w90_params, p2w_params, outputs, computed, validation,
          cleaned, clean_raised, call, ret>>

(***************************************************************************)
(* Bounds of the model                                                     *)
(***************************************************************************)
MaxCalcs == 1          \* calcjobs launched by one sub-workchain
MaxCleanFailures == 1  \* _clean() calls that raise in one on_terminated

(***************************************************************************)
(* Python helpers                                                          *)
(***************************************************************************)
NoneVal == << >>
Some(x) == <<x>>
IsNone(o) == o = << >>

EmptyDict == << >>
Has(d, k) == k \in DOMAIN d
\* d[k] = v for a dict d
DictSet(d, k, v) == [x \in DOMAIN d \cup {k} |-> IF x = k THEN v ELSE d[x]]
\* d.get(k, default)
DictGet(d, k, default) == IF k \in DOMAIN d THEN d[k] ELSE default

SetMax(S) == CHOOSE x \in S : \A y \in S : y <= x
SetMin(S) == CHOOSE x \in S : \A y \in S : x <= y
Min2(a, b) == IF a <= b THEN a ELSE b

(***************************************************************************)
(* The outline (define, spec.outline)                                      *)
(***************************************************************************)
Stages == <<"relax", "scf", "nscf", "projwfc", "wannier90_pp", "pw2wannier90", "wannier90">>
StageSet == {Stages[i] : i \in 1..Len(Stages)}
StageIndex(s) == CHOOSE i \in 1..Len(Stages) : Stages[i] = s

OutlineNscfFirst ==
    << "setup",
       "run_relax", "inspect_relax",
       "run_nscf", "inspect_nscf",
       "run_scf", "inspect_scf",
       "run_projwfc", "inspect_projwfc",
       "run_wannier90_pp", "inspect_wannier90_pp",
       "run_pw2wannier90", "inspect_pw2wannier90",
       "run_wannier90", "inspect_wannier90",
       "results" >>
Outline ==
    << "setup",
       "run_relax", "inspect_relax",
       "run_scf", "inspect_scf",
       "run_nscf", "inspect_nscf",
       "run_projwfc", "inspect_projwfc",
       "run_wannier90_pp", "inspect_wannier90_pp",
       "run_pw2wannier90", "inspect_pw2wannier90",
       "run_wannier90", "inspect_wannier90",
       "results" >>
StepIndex(step) == CHOOSE i \in 1..Len(Outline) : Outline[i] = step
RunStep(s) == "run_" \o s
InspectStep(s) == "inspect_" \o s

\* the key of self.ctx under which ToContext stores the sub-process of a stage
CtxKey(s) == IF s = "projwfc" THEN "calc_projwfc" ELSE "workchain_" \o s

should_run_relax(inp) == Has(inp, "relax")
should_run_scf(inp) == Has(inp, "scf")
should_run_nscf(inp) == Has(inp, "nscf")
should_run_projwfc_as_nscf(inp) == Has(inp, "nscf")
should_run_projwfc(inp) == Has(inp, "projwfc")

\* the if_ condition guarding an outline step, TRUE for the unguarded ones
StepCondition(step, inp) ==
    CASE step \in {"run_relax", "inspect_relax"} -> should_run_relax(inp)
      [] step \in {"run_scf", "inspect_scf"} -> should_run_scf(inp)
      [] step \in {"run_nscf", "inspect_nscf"} -> should_run_nscf(inp)
      [] step \in {"run_projwfc", "inspect_projwfc"} -> should_run_projwfc(inp)
      [] OTHER -> TRUE

\* the step the engine runs after step: the next one whose if_ condition holds
NextStepWithLoop(step, inp) ==
    LET later == {i \in (StepIndex(step) + 1)..Len(Outline) : StepCondition(Outline[i], inp)}
    IN  IF step = "results" THEN "inspect_wannier90"
        ELSE IF later = {} THEN "stop" ELSE Outline[SetMin(later)]
NextStep(step, inp) ==
    LET later == {i \in (StepIndex(step) + 1)..Len(Outline) : StepCondition(Outline[i], inp)}
    IN  IF later = {} THEN "stop" ELSE Outline[SetMin(later)]

\* exit codes of the process spec
ExitCode(name) ==
    CASE name = "ERROR_SUB_PROCESS_FAILED_RELAX" -> 410
      [] name = "ERROR_SUB_PROCESS_FAILED_SCF" -> 420
      [] name = "ERROR_SUB_PROCESS_FAILED_NSCF" -> 430
      [] name = "ERROR_NO_FERMI_FOR_RELATIVE_DIS_WINDOWS" -> 431
      [] name = "ERROR_SUB_PROCESS_FAILED_PROJWFC" -> 440
      [] name = "ERROR_SUB_PROCESS_FAILED_WANNIER90PP" -> 450
      [] name = "ERROR_SUB_PROCESS_FAILED_PW2WANNIER90" -> 460
      [] name = "ERROR_SUB_PROCESS_FAILED_WANNIER90" -> 470

\* the exit code each inspect_* step returns when its sub-process failed
InspectExitCode(s) ==
    CASE s = "relax" -> ExitCode("ERROR_SUB_PROCESS_FAILED_RELAX")
      [] s = "scf" -> ExitCode("ERROR_SUB_PROCESS_FAILED_SCF")
      [] s = "nscf" -> ExitCode("ERROR_SUB_PROCESS_FAILED_NSCF")
      [] s = "projwfc" -> ExitCode("ERROR_SUB_PROCESS_FAILED_PROJWFC")
      [] s = "wannier90_pp" -> ExitCode("ERROR_SUB_PROCESS_FAILED_WANNIER90PP")
      [] s = "pw2wannier90" -> ExitCode("ERROR_SUB_PROCESS_FAILED_PW2WANNIER90")
      [] s = "wannier90" -> ExitCode("ERROR_SUB_PROCESS_FAILED_WANNIER90")

(***************************************************************************)
(* validate_inputs                                                         *)
(***************************************************************************)
MsgParentFolder == "If skipping scf step, nscf inputs must have a parent_folder"
MsgBandsPlot == "bands_plot is True but no kpoint_path or explicit_kpoint_path provided"
MsgScdm == "auto_froz_max is incompatible with SCDM"

\* the second half of validate_inputs: bands_plot, then auto_froz_max against scdm_proj
validate_wannier_scdm_outside_inputpp(inp) ==
    LET wannier_inputs == inp["wannier90"]["wannier90"]
        wannier_parameters == wannier_inputs["parameters"]
        bands_plot == DictGet(wannier_parameters, "bands_plot", FALSE)
        pw2wannier_parameters == inp["pw2wannier90"]["pw2wannier90"]["parameters"]
    IN  IF bands_plot /\ ~Has(wannier_inputs, "kpoint_path")
                      /\ ~Has(wannier_inputs, "explicit_kpoint_path")
        THEN [raised |-> "", returned |-> MsgBandsPlot]
        ELSE IF ~DictGet(inp, "auto_froz_max", FALSE)
        THEN [raised |-> "", returned |-> ""]
        ELSE IF DictGet(pw2wannier_parameters, "scdm_proj", FALSE)
        THEN [raised |-> "", returned |-> MsgScdm]
        ELSE [raised |-> "", returned |-> ""]
validate_wannier(inp) ==
    LET wannier_inputs == inp["wannier90"]["wannier90"]
        wannier_parameters == wannier_inputs["parameters"]
        bands_plot == DictGet(wannier_parameters, "bands_plot", FALSE)
        pw2wannier_parameters == inp["pw2wannier90"]["pw2wannier90"]["parameters"]
    IN  IF bands_plot /\ ~Has(wannier_inputs, "kpoint_path")
                      /\ ~Has(wannier_inputs, "explicit_kpoint_path")
        THEN [raised |-> "", returned |-> MsgBandsPlot]
        ELSE IF ~DictGet(inp, "auto_froz_max", FALSE)
        THEN [raised |-> "", returned |-> ""]
        ELSE IF ~Has(pw2wannier_parameters, "inputpp")
        THEN [raised |-> "KeyError", returned |-> ""]
        ELSE IF DictGet(pw2wannier_parameters["inputpp"], "scdm_proj", FALSE)
        THEN [raised |-> "", returned |-> MsgScdm]
        ELSE [raised |-> "", returned |-> ""]

\* validate_inputs(inputs): the message it returns ("" for None), or the exception
\* it raises
validate_inputs(inp) ==
    IF ~Has(inp, "scf")
    THEN IF ~Has(inp, "nscf")
         THEN [raised |-> "KeyError", returned |-> ""]
         ELSE IF ~Has(inp["nscf"]["pw"], "parent_folder")
         THEN [raised |-> "", returned |-> MsgParentFolder]
         ELSE validate_wannier(inp)
    ELSE validate_wannier(inp)

(***************************************************************************)
(* Fermi energy, HOMO and LUMO                                             *)
(***************************************************************************)
\* get_fermi_energy(output_parameters): None unless the units are eV
get_fermi_energy(output_parameters) ==
    IF DictGet(output_parameters, "fermi_energy_units", "") # "eV"
    THEN NoneVal
    ELSE IF Has(output_parameters, "fermi_energy")
         THEN Some(output_parameters["fermi_energy"])
         ELSE NoneVal

\* get_scf_fermi_energy: the number of the first line of aiida.out that matches
\* "(compare with: ... eV, computed in scf)", None when no line does.  A line
\* is [compare |-> whether it matches, ev |-> the number it holds].
get_scf_fermi_energy(lines) ==
    LET hits == {i \in 1..Len(lines) : lines[i].compare}
    IN  IF hits = {} THEN NoneVal ELSE Some(lines[SetMin(hits)].ev)

\* the entries of a num_kpoints * num_bands array
BandEntries(bands) == {bands[k][b] : k \in 1..Len(bands), b \in 1..Len(bands[1])}

\* get_homo_lumo(bands, fermi_energy): np.max / np.min of an empty selection raise
get_homo_lumo(bands, fermi_energy) ==
    LET occupied == {e \in BandEntries(bands) : e <= fermi_energy}
        unoccupied == {e \in BandEntries(bands) : e > fermi_energy}
    IN  IF occupied = {} \/ unoccupied = {}
        THEN [raised |-> "ValueError", homo |-> 0, lumo |-> 0]
        ELSE [raised |-> "", homo |-> SetMax(occupied), lumo |-> SetMin(unoccupied)]

(***************************************************************************)
(* prepare_wannier90_inputs                                                *)
(***************************************************************************)
BandGapTol == 10   \* 1e-3 eV
FrozSafety == 1    \* 1e-4 eV
DisKeys == {"dis_froz_min", "dis_froz_max", "dis_win_min", "dis_win_max"}

\* fermi_energy as read from the scf outputs, else from the nscf stdout
FermiEnergyOf(c, p) ==
    IF Has(c, "workchain_scf")
    THEN get_fermi_energy(p["scf"].out.output_parameters)
    ELSE IF Has(c, "workchain_nscf")
    THEN get_scf_fermi_energy(p["nscf"].out.stdout)
    ELSE NoneVal

\* "if fermi_energy: parameters['fermi_energy'] = fermi_energy" (0.0 is falsy)
AddFermiEnergy(parameters, fermi_energy) ==
    IF ~IsNone(fermi_energy) /\ fermi_energy[1] # 0
    THEN DictSet(parameters, "fermi_energy", fermi_energy[1])
    ELSE parameters

\* the energy the windows are shifted by: LUMO for an insulator, else Fermi energy
ShiftEnergyMetalOnly(homo, lumo, fermi_energy) == fermi_energy
ShiftEnergyGapFromFermi(homo, lumo, fermi_energy) ==
    IF lumo - fermi_energy > BandGapTol THEN lumo ELSE fermi_energy
ShiftEnergy(homo, lumo, fermi_energy) ==
    IF lumo - homo > BandGapTol THEN lumo ELSE fermi_energy

\* "for k in keys: if k in parameters: parameters[k] += shift_energy"
ShiftKeysAddMissing(parameters, shift_energy) ==
    [k \in DOMAIN parameters \cup DisKeys |->
        IF k \in DisKeys
        THEN (IF k \in DOMAIN parameters THEN parameters[k] ELSE 0) + shift_energy
        ELSE parameters[k]]
ShiftKeys(parameters, shift_energy) ==
    [k \in DOMAIN parameters |->
        IF k \in DisKeys THEN parameters[k] + shift_energy ELSE parameters[k]]

\* the block "if self.inputs['relative_dis_windows']"
ShiftDisWindows(inp, c, p, parameters, fermi_energy) ==
    IF ~inp["relative_dis_windows"]
    THEN [raised |-> "", parameters |-> parameters]
    ELSE IF IsNone(fermi_energy)
    THEN [raised |-> "ValueError", parameters |-> parameters]
    ELSE IF ~Has(c, "workchain_scf") /\ ~Has(c, "workchain_nscf")
    THEN [raised |-> "ValueError", parameters |-> parameters]
    ELSE LET output_band == IF Has(c, "workchain_scf")
                            THEN p["scf"].out.output_band
                            ELSE p["nscf"].out.output_band
             hl == get_homo_lumo(output_band, fermi_energy[1])
         IN  IF hl.raised # ""
             THEN [raised |-> hl.raised, parameters |-> parameters]
             ELSE [raised |-> "",
                   parameters |-> ShiftKeys(parameters,
                                            ShiftEnergy(hl.homo, hl.lumo, fermi_energy[1]))]

\* get_energy_of_projectability(bands, projections, thresholds) of the projwfc
\* outputs: the outputs are kept as the energy they give for each threshold
DefaultThreshold == 9   \* 0.9, in tenths
get_energy_of_projectability_default(projwfc_out, thresholds) ==
    projwfc_out.projectability[DefaultThreshold]
get_energy_of_projectability(projwfc_out, thresholds) ==
    projwfc_out.projectability[thresholds]

\* the block "Auto set dis_froz_max"
AutoFrozMaxKeepGiven(inp, c, p, parameters) ==
    IF ~inp["auto_froz_max"] \/ Has(parameters, "dis_froz_max")
    THEN [raised |-> "", parameters |-> parameters]
    ELSE IF ~Has(c, "calc_projwfc")
    THEN [raised |-> "AttributeError", parameters |-> parameters]
    ELSE [raised |-> "",
          parameters |-> DictSet(parameters, "dis_froz_max",
              get_energy_of_projectability(p["projwfc"].out, inp["auto_froz_max_threshold"]))]
AutoFrozMax(inp, c, p, parameters) ==
    IF ~(Has(inp, "auto_froz_max") /\ inp["auto_froz_max"])
    THEN [raised |-> "", parameters |-> parameters]
    ELSE IF ~Has(c, "calc_projwfc")
    THEN [raised |-> "AttributeError", parameters |-> parameters]
    ELSE [raised |-> "",
          parameters |-> DictSet(parameters, "dis_froz_max",
              get_energy_of_projectability(p["projwfc"].out, inp["auto_froz_max_threshold"]))]

\* remove_exclude_bands(bands, exclude_bands): the columns that are not excluded
\* (0-based indices), in their order
RECURSIVE DropColumns(_, _, _)
DropColumns(row, exclude_bands, b) ==
    IF b > Len(row) THEN << >>
    ELSE IF (b - 1) \in exclude_bands
         THEN DropColumns(row, exclude_bands, b + 1)
         ELSE <<row[b]>> \o DropColumns(row, exclude_bands, b + 1)
remove_exclude_bands(bands, exclude_bands) ==
    [k \in 1..Len(bands) |-> DropColumns(bands[k], exclude_bands, 1)]

\* np.min(bands[:, num_wann - 1]) - 1e-4
MaxFrozEnergyAnyKpoint(bands, num_wann) ==
    SetMax({bands[k][num_wann] : k \in 1..Len(bands)}) - FrozSafety
MaxFrozEnergy(bands, num_wann) ==
    SetMin({bands[k][num_wann] : k \in 1..Len(bands)}) - FrozSafety

\* the block "Prevent error: More states in the frozen window than target WFs"
LimitFrozMaxNone(c, p, parameters) == [raised |-> "", parameters |-> parameters]
LimitFrozMax(c, p, parameters) ==
    IF ~Has(parameters, "dis_froz_max")
    THEN [raised |-> "", parameters |-> parameters]
    ELSE IF ~Has(c, "workchain_nscf") /\ ~Has(c, "workchain_scf")
    THEN [raised |-> "AttributeError", parameters |-> parameters]
    ELSE LET all_bands == IF Has(c, "workchain_nscf")
                          THEN p["nscf"].out.output_band
                          ELSE p["scf"].out.output_band
             excl == DictGet(parameters, "exclude_bands", << >>)
             bands == IF excl # << >>
                      THEN remove_exclude_bands(all_bands,
                               {excl[i] - 1 : i \in 1..Len(excl)})
                      ELSE all_bands
         IN  IF parameters["num_wann"] > Len(bands[1])
             THEN [raised |-> "IndexError", parameters |-> parameters]
             ELSE [raised |-> "",
                   parameters |-> DictSet(parameters, "dis_froz_max",
                       Min2(MaxFrozEnergy(bands, parameters["num_wann"]),
                            parameters["dis_froz_max"]))]

\* prepare_wannier90_inputs: the parameters of the wannier90 calculation, or the
\* exception raised on the way
prepare_wannier90_inputs(inp, c, p) ==
    LET parameters == inp["wannier90"]["wannier90"]["parameters"]
        fermi_energy == FermiEnergyOf(c, p)
        shifted == ShiftDisWindows(inp, c, p, AddFermiEnergy(parameters, fermi_energy),
                                   fermi_energy)
    IN  IF shifted.raised # "" THEN shifted
        ELSE LET auto == AutoFrozMax(inp, c, p, shifted.parameters)
             IN  IF auto.raised # "" THEN auto
                 ELSE LimitFrozMax(c, p, auto.parameters)

(***************************************************************************)
(* prepare_pw2wannier90_inputs, update_scdm_mu_sigma                       *)
(***************************************************************************)
\* update_scdm_mu_sigma(parameters, bands, projections, sigma_factor): fit is
\* the (mu, sigma) that fit_scdm_mu_sigma_aiida returns for the projwfc outputs
update_scdm_mu_sigma_overwriting(parameters, fit) ==
    DictSet(parameters, "inputpp",
            DictSet(DictSet(parameters["inputpp"], "scdm_mu", fit.mu),
                    "scdm_sigma", fit.sigma))
update_scdm_mu_sigma(parameters, fit) ==
    LET inputpp == parameters["inputpp"]
        with_mu == IF ~Has(inputpp, "scdm_mu")
                   THEN DictSet(inputpp, "scdm_mu", fit.mu) ELSE inputpp
        with_sigma == IF ~Has(inputpp, "scdm_sigma")
                      THEN DictSet(with_mu, "scdm_sigma", fit.sigma) ELSE with_mu
    IN  DictSet(parameters, "inputpp", with_sigma)

\* prepare_pw2wannier90_inputs: the pw2wannier90 parameters, or the exception
prepare_pw2wannier90_inputs(inp, c, p) ==
    LET parameters == inp["pw2wannier90"]["pw2wannier90"]["parameters"]
        inputpp == DictGet(parameters, "inputpp", EmptyDict)
        scdm_proj == DictGet(inputpp, "scdm_proj", FALSE)
        scdm_entanglement == DictGet(inputpp, "scdm_entanglement", "")
        missing == ~Has(inputpp, "scdm_mu") \/ ~Has(inputpp, "scdm_sigma")
        calc_scdm_params == scdm_proj /\ scdm_entanglement = "erfc" /\ missing
    IN  IF scdm_entanglement = "gaussian" /\ missing
        THEN [raised |-> "ValueError", parameters |-> parameters]
        ELSE IF ~calc_scdm_params
        THEN [raised |-> "", parameters |-> parameters]
        ELSE IF ~Has(c, "calc_projwfc")
        THEN [raised |-> "ValueError", parameters |-> parameters]
        ELSE IF IsNone(p["projwfc"].out.scdm_fit)
        THEN [raised |-> "ValueError", parameters |-> parameters]
        ELSE [raised |-> "",
              parameters |-> update_scdm_mu_sigma(parameters, p["projwfc"].out.scdm_fit[1])]

(***************************************************************************)
(* Inputs of the workchain                                                 *)
(***************************************************************************)
OptionalNamespaces == {"relax", "scf", "nscf", "projwfc"}

\* the content of an optional namespace that is given
NamespaceInputs(name, parent_folder) ==
    CASE name = "relax" -> [base |-> "PwBaseWorkChain inputs"]
      [] name = "scf" -> [pw |-> [pseudos |-> "pseudos"]]
      [] name = "nscf" -> [pw |-> IF parent_folder
                                   THEN [pseudos |-> "pseudos", parent_folder |-> "given"]
                                   ELSE [pseudos |-> "pseudos"]]
      [] name = "projwfc" -> [code |-> "projwfc.x"]

\* an input namespace: ns are the optional namespaces given, w90 the inputs of
\* wannier90.wannier90, p2w the parameters of pw2wannier90.pw2wannier90
MkInputs(ns, parent_folder, clean, rel, auto, thr, w90, p2w) ==
    LET always == {"structure", "clean_workdir", "relative_dis_windows",
                   "scdm_sigma_factor", "auto_froz_max", "auto_froz_max_threshold",
                   "pw2wannier90", "wannier90"}
    IN  [k \in always \cup ns |->
            CASE k = "structure" -> "input"
              [] k = "clean_workdir" -> clean
              [] k = "relative_dis_windows" -> rel
              [] k = "scdm_sigma_factor" -> 3
              [] k = "auto_froz_max" -> auto
              [] k = "auto_froz_max_threshold" -> thr
              [] k = "pw2wannier90" -> [pw2wannier90 |-> [parameters |-> p2w]]
              [] k = "wannier90" -> [wannier90 |-> w90]
              [] OTHER -> NamespaceInputs(k, parent_folder)]

\* every choice of optional namespaces; parent_folder only varies with nscf given
NamespaceChoices ==
    {<<ns, pf>> \in (SUBSET OptionalNamespaces) \X BOOLEAN : pf => "nscf" \in ns}

PlainParameters == [num_wann |-> 2, dis_froz_max |-> 30, dis_win_max |-> 90]
PlainW90 == [parameters |-> PlainParameters]
PlainP2w == [inputpp |-> [write_amn |-> TRUE]]

\* wannier90 inputs that differ in bands_plot and the two k-point paths
BandsPlotW90 ==
    {[parameters |-> [num_wann |-> 2, bands_plot |-> FALSE]],
     [parameters |-> [num_wann |-> 2, bands_plot |-> TRUE]],
     [parameters |-> [num_wann |-> 2, bands_plot |-> TRUE], kpoint_path |-> "path"],
     [parameters |-> [num_wann |-> 2, bands_plot |-> TRUE], explicit_kpoint_path |-> "kpts"]}

\* pw2wannier90 parameters that differ in the SCDM keys of inputpp
ScdmP2w ==
    {EmptyDict,
     [inputpp |-> [scdm_proj |-> FALSE]],
     [inputpp |-> [scdm_proj |-> TRUE, scdm_entanglement |-> "isolated"]],
     [inputpp |-> [scdm_proj |-> TRUE, scdm_entanglement |-> "erfc"]],
     [inputpp |-> [scdm_proj |-> TRUE, scdm_entanglement |-> "erfc", scdm_mu |-> 7]],
     [inputpp |-> [scdm_proj |-> TRUE, scdm_entanglement |-> "erfc", scdm_mu |-> 7,
                   scdm_sigma |-> 2]],
     [inputpp |-> [scdm_proj |-> TRUE, scdm_entanglement |-> "gaussian", scdm_sigma |-> 2]]}

\* the inputs the workchain is launched with: every choice of namespaces and
\* flags with plain parameters, every choice the validator looks at, and the
\* SCDM choices with and without projwfc
WorkflowInputs ==
    {MkInputs(c[1], c[2], clean, rel, auto, DefaultThreshold, PlainW90, PlainP2w) :
        c \in NamespaceChoices, clean \in BOOLEAN, rel \in BOOLEAN, auto \in BOOLEAN}
ValidatedInputs ==
    {MkInputs(c[1], c[2], FALSE, FALSE, auto, DefaultThreshold, w90, p2w) :
        c \in NamespaceChoices, auto \in BOOLEAN, w90 \in BandsPlotW90,
        p2w \in {EmptyDict, [inputpp |-> [scdm_proj |-> FALSE]],
                 [inputpp |-> [scdm_proj |-> TRUE, scdm_entanglement |-> "isolated"]]}}
ScdmInputs ==
    {MkInputs(ns, FALSE, FALSE, FALSE, FALSE, DefaultThreshold, PlainW90, p2w) :
        ns \in {{"scf", "nscf", "projwfc"}, {"scf", "nscf"}}, p2w \in ScdmP2w}
InputSpace == WorkflowInputs \cup ValidatedInputs \cup ScdmInputs

(***************************************************************************)
(* Outputs of the sub-processes                                            *)
(***************************************************************************)
Insulator == << <<0, 40, 60>>, <<10, 35, 70>> >>
NearMetal == << <<0, 15, 60>>, <<10, 25, 70>> >>
SmallGap == << <<0, 14, 60>>, <<10, 25, 70>> >>
AllOccupied == << <<0, 5, 10>>, <<0, 5, 20>> >>

OtherLine == [compare |-> FALSE, ev |-> 0]
CompareLine(e) == [compare |-> TRUE, ev |-> e]

ScfOut(output_parameters, bands) ==
    [output_parameters |-> output_parameters, output_band |-> bands,
     remote_folder |-> "scf"]
NscfOut(lines, bands) ==
    [stdout |-> lines, output_band |-> bands, remote_folder |-> "nscf",
     output_parameters |-> [number_of_electrons |-> 8]]
ProjwfcOut(projectability, fit) ==
    [projectability |-> projectability, scdm_fit |-> fit, num_orbitals |-> 4]

ScfParameters(fermi) ==
    IF IsNone(fermi)
    THEN [number_of_electrons |-> 8]
    ELSE [number_of_electrons |-> 8, fermi_energy |-> fermi[1],
          fermi_energy_units |-> "eV"]

LowProjectability == (5 :> 45) @@ (9 :> 30)
HighProjectability == (5 :> 65) @@ (9 :> 50)

\* what a sub-process of the stage can leave behind when it finishes ok
OkOutputs(s) ==
    CASE s = "relax" -> {[output_structure |-> "relaxed"]}
      [] s = "scf" -> {ScfOut(ScfParameters(f), Insulator) : f \in {NoneVal, Some(20)}}
      [] s = "nscf" -> {NscfOut(l, Insulator) :
                          l \in {<<OtherLine>>, <<OtherLine, CompareLine(20), CompareLine(12)>>}}
      [] s = "projwfc" -> {ProjwfcOut(LowProjectability, f) :
                             f \in {NoneVal, Some([mu |-> 5, sigma |-> 1])}}
      [] s = "wannier90_pp" -> {[nnkp_file |-> "aiida.nnkp", remote_folder |-> "wannier90_pp"]}
      [] s = "pw2wannier90" -> {[remote_folder |-> "pw2wannier90"]}
      [] s = "wannier90" -> {[remote_folder |-> "wannier90"]}

\* how many calcjobs a sub-process has launched when it ends: a ProjwfcCalculation
\* is one calcjob itself, a workchain that finishes ok has run at least one
CalcCounts(s, ok) ==
    IF s = "projwfc" THEN {1} ELSE IF ok THEN 1..MaxCalcs ELSE 0..MaxCalcs

NoProcess == [state |-> "none", out |-> EmptyDict]
IsTerminated(p) == p.state \in {"finished_ok", "failed"}
is_finished_ok(p) == p.state = "finished_ok"

\* self.node.called_descendants that are CalcJobNodes, numbered as launched
CalcJobs(n) == 1..n

(***************************************************************************)
(* The engine: launching, waiting, terminating                             *)
(***************************************************************************)
Init ==
    /\ inputs \in InputSpace
    /\ state = "new"
    /\ pc = "setup"
    /\ exit_status = 0
    /\ exception = ""
    /\ ctx = EmptyDict
    /\ awaiting = {}
    /\ proc = [s \in StageSet |-> NoProcess]
    /\ calcjobs = 0
    /\ submitted = << >>
    /\ entered = {}
    /\ w90_params = EmptyDict
    /\ p2w_params = NoneVal
    /\ outputs = {}
    /\ computed = EmptyDict
    /\ validation = [raised |-> "", returned |-> ""]
    /\ cleaned = {}
    /\ clean_raised = {}
    /\ call = EmptyDict
    /\ ret = EmptyDict

\* the sets of calcjobs whose _clean() may raise IOError, OSError or KeyError
RECURSIVE SubsetsUpTo(_, _)
SubsetsUpTo(S, n) ==
    IF n = 0 THEN {{}}
    ELSE LET smaller == SubsetsUpTo(S, n - 1)
         IN  smaller \cup {F \cup {c} : F \in smaller, c \in S}

\* on_terminated: with clean_workdir, _clean() is called on the remote folder of
\* every called CalcJobNode; the ones in `failing` raise and are passed over
CleanedByNothing(inp, n, failing) == {}
CleanedIgnoringFlag(inp, n, failing) == CalcJobs(n) \ failing
CleanedBy(inp, n, failing) ==
    IF ~inp["clean_workdir"] THEN {} ELSE CalcJobs(n) \ failing

\* the workchain ends in process state st; on_terminated runs
Terminate(st, code, exc) ==
    /\ state' = st
    /\ exit_status' = code
    /\ exception' = exc
    /\ pc' = "stop"
    /\ \E failing \in SubsetsUpTo(CalcJobs(calcjobs), MaxCleanFailures) :
           /\ cleaned' = CleanedBy(inputs, calcjobs, failing)
           /\ clean_raised' = IF inputs["clean_workdir"] THEN failing ELSE {}

\* the step returned None: the engine goes on to the next outline step, and
\* finishes with exit status 0 after the last one
Continue(step) ==
    IF NextStep(step, inputs) = "stop"
    THEN Terminate("finished", 0, "")
    ELSE /\ pc' = NextStep(step, inputs)
         /\ UNCHANGED <<state, exit_status, exception, cleaned,
                   clean_raised>>

\* "return ToContext(key=running)": the engine resumes the outline only when the
\* awaited process has terminated
ToContextNoWait(s) == {}
ToContext(s) == {s}

\* running = self.submit(...); return ToContext(...=running)
Submit(step, s) ==
    /\ proc' = [proc EXCEPT ![s] = [state |-> "running", out |-> EmptyDict]]
    /\ submitted' = Append(submitted, s)
    /\ awaiting' = ToContext(s)
    /\ state' = IF awaiting' = {} THEN "running" ELSE "waiting"
    /\ pc' = NextStep(step, inputs)
    /\ UNCHANGED <<exit_status, exception, cleaned,
                   clean_raised>>

\* the process is created: spec.inputs.validator decides whether it may run
Launch ==
    /\ state = "new"
    /\ validation' = validate_inputs(inputs)
    /\ state' = IF validation'.raised = "" /\ validation'.returned = ""
                THEN "running" ELSE "rejected"
    /\ UNCHANGED <<inputs, call, ret, pc, exit_status, exception, ctx, awaiting, proc, calcjobs,
                   submitted, entered, w90_params, p2w_params, outputs, computed, cleaned,
                   clean_raised>>

\* a submitted sub-process terminates, ok or not; the engine resolves the
\* awaitable into self.ctx
SubProcessTerminates(s) ==
    /\ proc[s].state = "running"
    /\ \/ \E out \in OkOutputs(s), n \in CalcCounts(s, TRUE) :
              /\ proc' = [proc EXCEPT ![s] = [state |-> "finished_ok", out |-> out]]
              /\ calcjobs' = calcjobs + n
       \/ \E n \in CalcCounts(s, FALSE) :
              /\ proc' = [proc EXCEPT ![s] = [state |-> "failed", out |-> EmptyDict]]
              /\ calcjobs' = calcjobs + n
    /\ IF s \in awaiting
       THEN /\ awaiting' = awaiting \ {s}
            /\ ctx' = DictSet(ctx, CtxKey(s), s)
            /\ state' = IF state = "waiting" /\ awaiting' = {} THEN "running" ELSE state
       ELSE UNCHANGED <<awaiting, ctx, state>>
    /\ UNCHANGED <<inputs, call, ret, pc, exit_status, exception, submitted, entered, w90_params,
                   p2w_params, outputs, computed, validation, cleaned,
                   clean_raised>>

\* an outline step starts
Enter(step) ==
    /\ state = "running"
    /\ pc = step
    /\ entered' = entered \cup {step}

(***************************************************************************)
(* The outline steps                                                       *)
(***************************************************************************)
setup ==
    /\ Enter("setup")
    /\ IF ~should_run_scf(inputs)
       THEN ctx' = DictSet(DictSet(ctx, "current_structure", inputs["structure"]),
                           "current_folder", inputs["nscf"]["pw"]["parent_folder"])
       ELSE ctx' = DictSet(ctx, "current_structure", inputs["structure"])
    /\ Continue("setup")
    /\ UNCHANGED <<inputs, call, ret, awaiting, proc, calcjobs, submitted, w90_params, p2w_params,
                   outputs, computed, validation>>

run_relax ==
    /\ Enter("run_relax")
    /\ Submit("run_relax", "relax")
    /\ UNCHANGED <<inputs, call, ret, ctx, calcjobs, w90_params, p2w_params, outputs, computed, validation>>

run_scf ==
    /\ Enter("run_scf")
    /\ Submit("run_scf", "scf")
    /\ UNCHANGED <<inputs, call, ret, ctx, calcjobs, w90_params, p2w_params, outputs, computed, validation>>

run_nscf ==
    /\ Enter("run_nscf")
    /\ Submit("run_nscf", "nscf")
    /\ UNCHANGED <<inputs, call, ret, ctx, calcjobs, w90_params, p2w_params, outputs, computed, validation>>

run_projwfc ==
    /\ Enter("run_projwfc")
    /\ Submit("run_projwfc", "projwfc")
    /\ UNCHANGED <<inputs, call, ret, ctx, calcjobs, w90_params, p2w_params, outputs, computed, validation>>

\* "if not workchain.is_finished_ok"
SubProcessFailedNever(p) == FALSE
SubProcessFailed(p) == ~is_finished_ok(p)

\* inspect_<stage>: the exit code of the stage unless the sub-process finished
\* ok; then ctx is updated with `updates` and the outline goes on
Inspect(s, updates) ==
    /\ Enter(InspectStep(s))
    /\ IF ~Has(ctx, CtxKey(s))
       THEN Terminate("excepted", 0, "AttributeError") /\ ctx' = ctx
       ELSE IF SubProcessFailed(proc[ctx[CtxKey(s)]])
       THEN Terminate("finished", InspectExitCode(s), "") /\ ctx' = ctx
       ELSE /\ ctx' = [k \in DOMAIN ctx \cup DOMAIN updates |->
                          IF k \in DOMAIN updates THEN updates[k] ELSE ctx[k]]
            /\ Continue(InspectStep(s))
    /\ UNCHANGED <<inputs, call, ret, awaiting, proc, calcjobs, submitted, w90_params, p2w_params,
                   outputs, computed, validation>>

inspect_relax ==
    Inspect("relax", IF is_finished_ok(proc["relax"])
                     THEN [current_structure |-> proc["relax"].out.output_structure]
                     ELSE EmptyDict)

inspect_scf ==
    Inspect("scf", IF is_finished_ok(proc["scf"])
                   THEN [current_folder |-> proc["scf"].out.remote_folder]
                   ELSE EmptyDict)

inspect_nscf ==
    Inspect("nscf", IF is_finished_ok(proc["nscf"])
                    THEN [current_folder |-> proc["nscf"].out.remote_folder]
                    ELSE EmptyDict)

inspect_projwfc == Inspect("projwfc", EmptyDict)

run_wannier90_pp ==
    /\ Enter("run_wannier90_pp")
    /\ LET prepared == prepare_wannier90_inputs(inputs, ctx, proc)
       IN  IF prepared.raised # ""
           THEN /\ Terminate("excepted", 0, prepared.raised)
                /\ UNCHANGED <<proc, submitted, awaiting, w90_params>>
           ELSE /\ Submit("run_wannier90_pp", "wannier90_pp")
                /\ w90_params' = DictSet(w90_params, "wannier90_pp", prepared.parameters)
    /\ UNCHANGED <<inputs, call, ret, ctx, calcjobs, p2w_params, outputs, computed, validation>>

inspect_wannier90_pp == Inspect("wannier90_pp", EmptyDict)

run_pw2wannier90 ==
    /\ Enter("run_pw2wannier90")
    /\ LET prepared == prepare_pw2wannier90_inputs(inputs, ctx, proc)
       IN  IF prepared.raised # ""
           THEN /\ Terminate("excepted", 0, prepared.raised)
                /\ UNCHANGED <<proc, submitted, awaiting, p2w_params>>
           ELSE /\ Submit("run_pw2wannier90", "pw2wannier90")
                /\ p2w_params' = Some(prepared.parameters)
    /\ UNCHANGED <<inputs, call, ret, ctx, calcjobs, w90_params, outputs, computed, validation>>

inspect_pw2wannier90 ==
    Inspect("pw2wannier90", IF is_finished_ok(proc["pw2wannier90"])
                            THEN [current_folder |-> proc["pw2wannier90"].out.remote_folder]
                            ELSE EmptyDict)

\* run_wannier90 copies the inputs of the last calcjob of the postproc step,
\* its parameters among them
run_wannier90 ==
    /\ Enter("run_wannier90")
    /\ Submit("run_wannier90", "wannier90")
    /\ w90_params' = DictSet(w90_params, "wannier90", w90_params["wannier90_pp"])
    /\ UNCHANGED <<inputs, call, ret, ctx, calcjobs, p2w_params, outputs, computed, validation>>

inspect_wannier90 ==
    Inspect("wannier90", IF is_finished_ok(proc["wannier90"])
                         THEN [current_folder |-> proc["wannier90"].out.remote_folder]
                         ELSE EmptyDict)

\* the numbers get_number_of_projections / get_number_of_electrons may compute
\* from the structure and the pseudopotentials
ComputedProjections == {4, 5}
ComputedElectrons == {8, 9}

\* the namespaces results passes to out_many
AttachedOutputsOfEveryStage(c) == StageSet
AttachedOutputs(c) ==
    {s \in {"relax", "scf", "nscf", "projwfc"} : Has(c, CtxKey(s))}
    \cup {"pw2wannier90", "wannier90_pp", "wannier90"}

\* the two sanity checks of results
ProjectionsMismatch(number_of_projections, num_proj) == number_of_projections # num_proj
ElectronsMismatchNever(number_of_electrons, num_elec) == FALSE
ElectronsMismatch(number_of_electrons, num_elec) == number_of_electrons # num_elec

results ==
    /\ Enter("results")
    /\ outputs' = AttachedOutputs(ctx)
    /\ \E number_of_projections \in ComputedProjections,
          number_of_electrons \in ComputedElectrons :
         LET num_elec == IF Has(ctx, "workchain_scf")
                         THEN proc["scf"].out.output_parameters["number_of_electrons"]
                         ELSE proc["nscf"].out.output_parameters["number_of_electrons"]
         IN  IF Has(ctx, "calc_projwfc")
                /\ ProjectionsMismatch(number_of_projections,
                                       proc["projwfc"].out.num_orbitals)
             THEN /\ computed' = [number_of_projections |-> number_of_projections]
                  /\ Terminate("excepted", 0, "ValueError")
             ELSE /\ computed' =
                        IF Has(ctx, "calc_projwfc")
                        THEN [number_of_projections |-> number_of_projections,
                              number_of_electrons |-> number_of_electrons]
                        ELSE [number_of_electrons |-> number_of_electrons]
                  /\ IF ElectronsMismatch(number_of_electrons, num_elec)
                     THEN Terminate("excepted", 0, "ValueError")
                     ELSE Continue("results")
    /\ UNCHANGED <<inputs, call, ret, ctx, awaiting, proc, calcjobs, submitted, w90_params,
                   p2w_params, validation>>

Next ==
    \/ Launch
    \/ \E s \in StageSet : SubProcessTerminates(s)
    \/ setup
    \/ run_relax
    \/ inspect_relax
    \/ run_scf
    \/ inspect_scf
    \/ run_nscf
    \/ inspect_nscf
    \/ run_projwfc
    \/ inspect_projwfc
    \/ run_wannier90_pp
    \/ inspect_wannier90_pp
    \/ run_pw2wannier90
    \/ inspect_pw2wannier90
    \/ run_wannier90
    \/ inspect_wannier90
    \/ results

Spec == Init /\ [][Next]_vars

(***************************************************************************)
(* The workchain from run_wannier90_pp on, with the outputs of scf, nscf   *)
(* and projwfc drawn from larger sets than above                           *)
(***************************************************************************)
DisValues == [dis_froz_min |-> -20, dis_froz_max |-> 30, dis_win_min |-> -50,
              dis_win_max |-> 90]

\* wannier90 parameters with the given dis_* keys, num_wann and exclude_bands
\* (<< >> for none)
WindowParameters(keys, num_wann, exclude_bands) ==
    [k \in keys \cup {"num_wann"} \cup (IF exclude_bands = << >> THEN {} ELSE {"exclude_bands"}) |->
        CASE k = "num_wann" -> num_wann
          [] k = "exclude_bands" -> exclude_bands
          [] OTHER -> DisValues[k]]

PrepareNamespaces ==
    {<<{"scf", "projwfc"}, FALSE>>, <<{"scf", "nscf", "projwfc"}, FALSE>>,
     <<{"nscf", "projwfc"}, TRUE>>}

\* relative_dis_windows with every choice of the dis_* keys; auto_froz_max with
\* both thresholds and the choices of num_wann and exclude_bands
PrepareInputs ==
    {MkInputs(c[1], c[2], FALSE, rel, FALSE, DefaultThreshold,
              [parameters |-> WindowParameters(keys, 2, << >>)], PlainP2w) :
        c \in PrepareNamespaces, rel \in BOOLEAN, keys \in SUBSET DisKeys}
    \cup
    {MkInputs(c[1], c[2], FALSE, rel, TRUE, thr,
              [parameters |-> WindowParameters(keys, nw[1], nw[2])], PlainP2w) :
        c \in PrepareNamespaces, rel \in BOOLEAN, thr \in {5, DefaultThreshold},
        keys \in {{}, {"dis_froz_max"}, DisKeys},
        nw \in {<<2, << >> >>, <<2, <<1>> >>, <<3, <<1>> >>}}

FermiEnergies == {NoneVal, Some(12), Some(20)}
BandStructures == {Insulator, NearMetal, SmallGap, AllOccupied}
StdoutOf(fermi) ==
    IF IsNone(fermi) THEN <<OtherLine>> ELSE <<OtherLine, CompareLine(fermi[1]), OtherLine>>

\* the outputs of the stages that ran before run_wannier90_pp; with scf given
\* the Fermi energy comes from scf and the nscf stdout is the plain one
PrepareOutputs(ns) ==
    {[s \in ns |-> CASE s = "scf" -> ScfOut(ScfParameters(IF "scf" \in ns THEN f ELSE NoneVal), b1)
                     [] s = "nscf" -> NscfOut(StdoutOf(IF "scf" \in ns THEN NoneVal ELSE f), b2)
                     [] s = "projwfc" -> ProjwfcOut(pr, NoneVal)] :
        f \in FermiEnergies, b1 \in BandStructures,
        b2 \in (IF {"scf", "nscf"} \subseteq ns THEN BandStructures ELSE {Insulator}),
        pr \in {LowProjectability, HighProjectability}}

RECURSIVE StagesRun(_, _)
\* the stages of ns in outline order, from stage i on
StagesRun(ns, i) ==
    IF i > Len(Stages) THEN << >>
    ELSE (IF Stages[i] \in ns THEN <<Stages[i]>> ELSE << >>) \o StagesRun(ns, i + 1)

InitPrepare ==
    \E inp \in PrepareInputs :
      LET ns == DOMAIN inp \cap OptionalNamespaces
      IN  \E outs \in PrepareOutputs(ns) :
            /\ inputs = inp
            /\ state = "running"
            /\ pc = "run_wannier90_pp"
            /\ exit_status = 0
            /\ exception = ""
            /\ ctx = [k \in {"current_structure", "current_folder"} \cup {CtxKey(s) : s \in ns} |->
                        CASE k = "current_structure" -> inp["structure"]
                          [] k = "current_folder" -> IF "nscf" \in ns THEN "nscf" ELSE "scf"
                          [] k = "calc_projwfc" -> "projwfc"
                          [] k = "workchain_scf" -> "scf"
                          [] k = "workchain_nscf" -> "nscf"]
            /\ awaiting = {}
            /\ proc = [s \in StageSet |->
                         IF s \in ns THEN [state |-> "finished_ok", out |-> outs[s]]
                         ELSE NoProcess]
            /\ calcjobs = Cardinality(ns)
            /\ submitted = StagesRun(ns, 1)
            /\ entered = {"setup"} \cup {RunStep(s) : s \in ns} \cup {InspectStep(s) : s \in ns}
            /\ w90_params = EmptyDict
            /\ p2w_params = NoneVal
            /\ outputs = {}
            /\ computed = EmptyDict
            /\ validation = validate_inputs(inp)
            /\ cleaned = {}
    /\ clean_raised = {}
    /\ call = EmptyDict
    /\ ret = EmptyDict

NextPrepare ==
    \/ run_wannier90_pp
    \/ \E s \in StageSet : SubProcessTerminates(s)
    \/ inspect_wannier90_pp
    \/ run_pw2wannier90
    \/ inspect_pw2wannier90
    \/ run_wannier90

SpecPrepare == InitPrepare /\ [][NextPrepare]_vars

(***************************************************************************)
(* Properties                                                              *)
(***************************************************************************)
Range(seq) == {seq[i] : i \in 1..Len(seq)}
Terminated == state \in {"finished", "excepted"}
WannierStages == {"wannier90_pp", "pw2wannier90", "wannier90"}
ClaimedOrder ==
    [relax |-> 1, scf |-> 2, nscf |-> 3, projwfc |-> 4, wannier90_pp |-> 5,
     pw2wannier90 |-> 6, wannier90 |-> 7]
ClaimedExitCode ==
    [relax |-> 410, scf |-> 420, nscf |-> 430, projwfc |-> 440, wannier90_pp |-> 450,
     pw2wannier90 |-> 460, wannier90 |-> 470]
\* some outline step at or after run_<s> has started
Reached(s) == \E step \in entered : StepIndex(step) >= StepIndex(RunStep(s))

\* C1: the sub-processes are submitted in the order relax, scf, nscf, projwfc,
\* wannier90 postproc, pw2wannier90, wannier90, and when one is submitted every
\* sub-process submitted before it has finished ok and has been inspected.
C1_SubmissionOrder ==
    \A i \in 1..Len(submitted) : \A j \in 1..(i - 1) :
        /\ ClaimedOrder[submitted[j]] < ClaimedOrder[submitted[i]]
        /\ proc[submitted[j]].state = "finished_ok"
        /\ InspectStep(submitted[j]) \in entered

C1_Witness ==
    /\ Len(submitted) = 7
    /\ proc["wannier90"].state = "finished_ok"
    /\ "inspect_wannier90" \in entered

\* C2: when the sub-process of a stage has terminated without finishing ok, it
\* is the last one submitted and was submitted once, results never runs, and
\* the workchain is at the inspect step of the stage or has finished with the
\* exit code of the stage (410, 420, 430, 440, 450, 460, 470).
C2_FailedSubProcess ==
    \A s \in StageSet : proc[s].state = "failed" =>
        /\ Len(submitted) > 0
        /\ submitted[Len(submitted)] = s
        /\ Cardinality({i \in 1..Len(submitted) : submitted[i] = s}) = 1
        /\ "results" \notin entered
        /\ IF InspectStep(s) \in entered
           THEN state = "finished" /\ exit_status = ClaimedExitCode[s]
           ELSE state = "running" /\ pc = InspectStep(s)

C2_Witness ==
    /\ proc["pw2wannier90"].state = "failed"
    /\ state = "finished"
    /\ exit_status = 460

\* C3: when run_wannier90_pp has started with relative_dis_windows True and no
\* Fermi energy parsed from the scf/nscf outputs, the workchain has finished
\* with exit code 431 and no wannier90 postproc, pw2wannier90 or wannier90
\* sub-process has been submitted.
C3_NoFermiExitCode ==
    ( /\ "run_wannier90_pp" \in entered
      /\ inputs["relative_dis_windows"]
      /\ IsNone(FermiEnergyOf(ctx, proc)) )
    => /\ state = "finished"
       /\ exit_status = 431
       /\ Range(submitted) \cap WannierStages = {}

C5_OneSubProcessAtATime ==
    /\ Cardinality({s \in StageSet : proc[s].state = "running"}) <= 1
    /\ \A s \in StageSet :
          /\ proc[s].state = "running" => (state = "waiting" /\ pc = InspectStep(s))
          /\ InspectStep(s) \in entered => IsTerminated(proc[s])
          /\ Cardinality({i \in 1..Len(submitted) : submitted[i] = s}) <= 1
          /\ s \in Range(submitted) <=> proc[s].state # "none"
          /\ s \in Range(submitted) => RunStep(s) \in entered

C5_Witness ==
    /\ state = "waiting"
    /\ proc["pw2wannier90"].state = "running"
    /\ proc["wannier90_pp"].state = "finished_ok"

C7_ParentFolderMessage ==
    state # "new" =>
        /\ ( /\ ~Has(inputs, "scf")
             /\ (~Has(inputs, "nscf") \/ ~Has(inputs["nscf"]["pw"], "parent_folder")) )
           => /\ validation.returned = MsgParentFolder
              /\ state = "rejected"
        /\ Has(inputs, "scf") => validation.returned # MsgParentFolder

AutoFrozMaxWithScdm ==
    LET parameters == inputs["pw2wannier90"]["pw2wannier90"]["parameters"]
    IN  /\ inputs["auto_froz_max"]
        /\ Has(parameters, "inputpp")
        /\ Has(parameters["inputpp"], "scdm_proj")
        /\ parameters["inputpp"]["scdm_proj"]
BandsPlotWithoutPath ==
    LET wannier_inputs == inputs["wannier90"]["wannier90"]
    IN  /\ Has(wannier_inputs["parameters"], "bands_plot")
        /\ wannier_inputs["parameters"]["bands_plot"]
        /\ ~Has(wannier_inputs, "kpoint_path")
        /\ ~Has(wannier_inputs, "explicit_kpoint_path")

\* C8: inputs with auto_froz_max True and scdm_proj True in inputpp, and inputs
\* with bands_plot True and neither kpoint_path nor explicit_kpoint_path, are
\* rejected by validate_inputs, and no outline step runs and nothing is
\* submitted with them.
C8_RejectedCombinations ==
    (AutoFrozMaxWithScdm \/ BandsPlotWithoutPath) =>
        /\ state \in {"new", "rejected"}
        /\ state = "rejected" => (validation.raised # "" \/ validation.returned # "")
        /\ entered = {}
        /\ submitted = << >>

C8_Witness ==
    /\ state = "rejected"
    /\ AutoFrozMaxWithScdm
    /\ ~BandsPlotWithoutPath
    /\ validation.returned = MsgScdm

(***************************************************************************)
(* Properties of the prepared wannier90 parameters                         *)
(***************************************************************************)
GivenParameters == inputs["wannier90"]["wannier90"]["parameters"]
Prepared == Has(w90_params, "wannier90_pp")
\* the Fermi energy and bands of scf, or of nscf when scf did not run
ClaimedFermi == FermiEnergyOf(ctx, proc)[1]
ClaimedGapBands ==
    IF Has(inputs, "scf") THEN proc["scf"].out.output_band ELSE proc["nscf"].out.output_band
ClaimedEnergies ==
    {ClaimedGapBands[k][b] : k \in 1..Len(ClaimedGapBands), b \in 1..Len(ClaimedGapBands[1])}
ClaimedLumo == SetMin({e \in ClaimedEnergies : e > ClaimedFermi})
ClaimedHomo == SetMax({e \in ClaimedEnergies : e <= ClaimedFermi})
ClaimedShift ==
    IF ~inputs["relative_dis_windows"] THEN 0
    ELSE IF ClaimedLumo - ClaimedHomo > 10 THEN ClaimedLumo ELSE ClaimedFermi
\* the lowest energy over the k-points of band number num_wann among the bands
\* that are not excluded (of nscf, or of scf when nscf did not run), minus 1e-4
ClaimedCap ==
    LET bands == IF Has(inputs, "nscf") THEN proc["nscf"].out.output_band
                 ELSE proc["scf"].out.output_band
        excl == IF Has(GivenParameters, "exclude_bands")
                THEN Range(GivenParameters["exclude_bands"]) ELSE {}
        kept == (1..Len(bands[1])) \ excl
        col == CHOOSE c \in kept :
                  Cardinality({b \in kept : b <= c}) = GivenParameters["num_wann"]
    IN  SetMin({bands[k][col] : k \in 1..Len(bands)}) - 1
ProjectabilityEnergy ==
    proc["projwfc"].out.projectability[inputs["auto_froz_max_threshold"]]

\* what the relative_dis_windows block of prepare_wannier90_inputs makes of the
\* given parameters, before auto_froz_max and the dis_froz_max limit
ShiftStep ==
    ShiftDisWindows(inputs, ctx, proc,
                    AddFermiEnergy(GivenParameters, FermiEnergyOf(ctx, proc)),
                    FermiEnergyOf(ctx, proc))

ReportedElectrons ==
    IF Has(ctx, "workchain_scf")
    THEN proc["scf"].out.output_parameters["number_of_electrons"]
    ELSE proc["nscf"].out.output_parameters["number_of_electrons"]
CompletedSuccessfully == state = "finished" /\ exit_status = 0

\* C11: a run that completed successfully has computed a number of
\* projections equal to the number of orbitals of the projwfc output (when
\* projwfc ran) and a number of electrons equal to the number_of_electrons of
\* scf (of nscf when scf was skipped); when results computed a number that
\* differs, the workchain is excepted with ValueError.
C11_SanityChecks ==
    /\ CompletedSuccessfully =>
          /\ "results" \in entered
          /\ Has(computed, "number_of_electrons")
          /\ computed["number_of_electrons"] = ReportedElectrons
          /\ Has(ctx, "calc_projwfc") =>
                /\ Has(computed, "number_of_projections")
                /\ computed["number_of_projections"] = proc["projwfc"].out.num_orbitals
    /\ ( \/ /\ Has(computed, "number_of_projections")
            /\ computed["number_of_projections"] # proc["projwfc"].out.num_orbitals
         \/ /\ Has(computed, "number_of_electrons")
            /\ computed["number_of_electrons"] # ReportedElectrons )
       => state = "excepted" /\ exception = "ValueError"

C11_Witness ==
    /\ "results" \in entered
    /\ Has(ctx, "calc_projwfc")
    /\ computed["number_of_projections"] = proc["projwfc"].out.num_orbitals
    /\ Has(computed, "number_of_electrons")
    /\ computed["number_of_electrons"] # ReportedElectrons
    /\ state = "excepted"

\* C12: once results has run, the outputs attached are those of the steps among
\* relax, scf, nscf and projwfc that were submitted, and those of
\* pw2wannier90, wannier90_pp and wannier90; before results runs, and in a run
\* that ends with a sub-process exit code, no outputs are attached.
C12_AttachedOutputs ==
    /\ "results" \in entered =>
          outputs = {s \in {"relax", "scf", "nscf", "projwfc"} : s \in Range(submitted)}
                    \cup WannierStages
    /\ "results" \notin entered => outputs = {}
    /\ (state = "finished" /\ exit_status \in {ClaimedExitCode[s] : s \in StageSet}) => outputs = {}

C12_Witness ==
    /\ CompletedSuccessfully
    /\ "results" \in entered
    /\ outputs = {"scf", "projwfc"} \cup WannierStages

(***************************************************************************)
(* Functions called on their own: update_scdm_mu_sigma and the choice of   *)
(* the disentanglement and frozen types in get_builder_from_protocol       *)
(***************************************************************************)
\* no workchain runs while a function is called on its own
NoWorkChain ==
    /\ inputs = EmptyDict
    /\ state = "new"
    /\ pc = "stop"
    /\ exit_status = 0
    /\ exception = ""
    /\ ctx = EmptyDict
    /\ awaiting = {}
    /\ proc = [s \in StageSet |-> NoProcess]
    /\ calcjobs = 0
    /\ submitted = << >>
    /\ entered = {}
    /\ w90_params = EmptyDict
    /\ p2w_params = NoneVal
    /\ outputs = {}
    /\ computed = EmptyDict
    /\ validation = [raised |-> "", returned |-> ""]
    /\ cleaned = {}
    /\ clean_raised = {}
workchain_vars ==
    <<inputs, state, pc, exit_status, exception, ctx, awaiting, proc, calcjobs,
      submitted, entered, w90_params, p2w_params, outputs, computed, validation,
      cleaned, clean_raised>>

\* pw2wannier90 parameters with an inputpp namelist that holds the given ones
\* of scdm_mu and scdm_sigma, beside other keys and another namelist
ScdmGiven == [scdm_mu |-> 7, scdm_sigma |-> 2]
ScdmOtherKeys ==
    {[scdm_proj |-> TRUE, scdm_entanglement |-> "erfc"],
     [scdm_proj |-> TRUE, scdm_entanglement |-> "erfc", write_unk |-> TRUE]}
ScdmParameters ==
    {[top \in tops |->
        IF top = "inputpp"
        THEN [k \in DOMAIN other \cup given |->
                 IF k \in given THEN ScdmGiven[k] ELSE other[k]]
        ELSE [custom |-> 1]] :
     tops \in {{"inputpp"}, {"inputpp", "settings"}},
     other \in ScdmOtherKeys,
     given \in SUBSET {"scdm_mu", "scdm_sigma"}}
\* what fit_scdm_mu_sigma_aiida can return
ScdmFits == [mu : {5, 7, 8}, sigma : {1, 2}]
ScdmCalls ==
    [f : {"update_scdm_mu_sigma"}, parameters : ScdmParameters, fit : ScdmFits]

\* the enumerations of get_builder_from_protocol
ElectronicTypes == {"INSULATOR", "METAL", "AUTOMATIC"}
WannierProjectionTypes ==
    {"ANALYTIC", "RANDOM", "SCDM", "ATOMIC_PROJECTORS_QE", "ATOMIC_PROJECTORS_OPENMX"}
WannierDisentanglementTypes == {"NONE", "SMV"}
WannierFrozenTypes ==
    {"NONE", "ENERGY_FIXED", "ENERGY_AUTO", "PROJECTABILITY", "FIXED_PLUS_PROJECTABILITY"}

\* get_builder_from_protocol up to the summary: the disentanglement and frozen
\* types it goes on with, or the exception it raises; None is "None"
DisentanglementForProjectionOnly(electronic_type, projection_type) ==
    IF projection_type = "SCDM" THEN "NONE" ELSE "SMV"
DefaultDisentanglement(electronic_type, projection_type) ==
    IF electronic_type = "INSULATOR" \/ projection_type = "SCDM" THEN "NONE" ELSE "SMV"
DefaultFrozenEnergyFixed(electronic_type, projection_type) ==
    IF electronic_type = "INSULATOR" \/ projection_type = "SCDM" THEN "NONE"
    ELSE "ENERGY_FIXED"
DefaultFrozen(electronic_type, projection_type) ==
    IF electronic_type = "INSULATOR" \/ projection_type = "SCDM" THEN "NONE"
    ELSE IF projection_type \in {"ANALYTIC", "RANDOM"} THEN "ENERGY_FIXED"
    ELSE "FIXED_PLUS_PROJECTABILITY"
get_builder_from_protocol(electronic_type, projection_type, disentanglement_type, frozen_type) ==
    LET raise(exc) == [raised |-> exc, disentanglement_type |-> disentanglement_type,
                       frozen_type |-> frozen_type]
        dis == IF disentanglement_type = "None"
               THEN DefaultDisentanglement(electronic_type, projection_type)
               ELSE disentanglement_type
        froz == IF frozen_type = "None"
                THEN DefaultFrozen(electronic_type, projection_type)
                ELSE frozen_type
        chosen == [raised |-> "", disentanglement_type |-> dis, frozen_type |-> froz]
    IN  IF electronic_type \notin {"METAL", "INSULATOR"} THEN raise("NotImplementedError")
        ELSE IF electronic_type = "INSULATOR" \/ projection_type = "SCDM"
        THEN IF disentanglement_type \notin {"None", "NONE"} THEN raise("ValueError")
             ELSE IF frozen_type \notin {"None", "NONE"} THEN raise("ValueError")
             ELSE chosen
        ELSE IF projection_type \in {"ANALYTIC", "RANDOM", "ATOMIC_PROJECTORS_QE",
                                     "ATOMIC_PROJECTORS_OPENMX"}
        THEN IF dis = "NONE" /\ froz # "NONE" THEN raise("ValueError") ELSE chosen
        ELSE IF disentanglement_type = "None" \/ frozen_type = "None"
        THEN raise("ValueError")
        ELSE chosen
ProtocolCalls ==
    [f : {"get_builder_from_protocol"},
     electronic_type : ElectronicTypes,
     projection_type : WannierProjectionTypes,
     disentanglement_type : {"None"} \cup WannierDisentanglementTypes,
     frozen_type : {"None"} \cup WannierFrozenTypes]

\* get_semicore_list(structure, pseudo_orbitals): an orbital label such as 5S
\* is <<5, "S">>, structure.sites is the sequence of the kind names of the sites
MaxSites == 2
label2num == [S |-> 1, P |-> 3, D |-> 5, F |-> 7]
ListRemove(list, x) ==
    LET i == SetMin({j \in 1..Len(list) : list[j] = x})
    IN  SubSeq(list, 1, i - 1) \o SubSeq(list, i + 1, Len(list))
\* the loop over site_pswfcs, from orbital i on
RECURSIVE ScanPswfcs(_, _, _)
ScanPswfcs(site_pswfcs, i, acc) ==
    IF i > Len(site_pswfcs) THEN acc
    ELSE LET orb == site_pswfcs[i]
             num_orbs == label2num[orb[2]]
         IN  ScanPswfcs(site_pswfcs, i + 1,
                 IF \E j \in 1..Len(acc.site_semicores) : acc.site_semicores[j] = orb
                 THEN [site_semicores |-> ListRemove(acc.site_semicores, orb),
                       semicore_list |-> acc.semicore_list \o
                           [k \in 1..num_orbs |-> acc.num_pswfcs + k],
                       num_pswfcs |-> acc.num_pswfcs + num_orbs]
                 ELSE [acc EXCEPT !.num_pswfcs = @ + num_orbs])
\* the loop over structure.sites, from site s on
RECURSIVE ScanSites(_, _, _, _, _)
ScanSites(sites, s, pseudo_orbitals, semicore_list, num_pswfcs) ==
    IF s > Len(sites) THEN [returned |-> "list", semicore_list |-> semicore_list]
    ELSE LET acc == ScanPswfcs(pseudo_orbitals[sites[s]].pswfcs, 1,
                               [site_semicores |-> pseudo_orbitals[sites[s]].semicores,
                                semicore_list |-> semicore_list,
                                num_pswfcs |-> num_pswfcs])
         IN  IF Len(acc.site_semicores) # 0
             THEN [returned |-> "ValueError", semicore_list |-> << >>]
             ELSE ScanSites(sites, s + 1, pseudo_orbitals, acc.semicore_list, acc.num_pswfcs)
get_semicore_list(sites, pseudo_orbitals) == ScanSites(sites, 1, pseudo_orbitals, << >>, 0)

KindNames == {"Ce", "O"}
PseudoData ==
    {[pswfcs |-> <<<<5, "S">>, <<5, "P">>, <<4, "F">>>>, semicores |-> <<<<5, "S">>, <<5, "P">>>>],
     [pswfcs |-> <<<<3, "D">>, <<3, "S">>>>, semicores |-> <<<<3, "S">>>>],
     [pswfcs |-> <<<<2, "S">>, <<2, "P">>>>, semicores |-> << >>],
     [pswfcs |-> <<<<2, "S">>>>, semicores |-> <<<<1, "S">>>>]}
SemicoreCalls ==
    [f : {"get_semicore_list"},
     sites : UNION {[1..n -> KindNames] : n \in 1..MaxSites},
     pseudo_orbitals : [KindNames -> PseudoData]]

InitFunctions ==
    /\ NoWorkChain
    /\ call \in ScdmCalls \cup ProtocolCalls \cup SemicoreCalls
    /\ ret = EmptyDict

CallUpdateScdmMuSigma ==
    /\ call.f = "update_scdm_mu_sigma"
    /\ ret = EmptyDict
    /\ ret' = [returned |-> update_scdm_mu_sigma(call.parameters, call.fit)]
    /\ UNCHANGED <<workchain_vars, call>>

CallGetBuilderFromProtocol ==
    /\ call.f = "get_builder_from_protocol"
    /\ ret = EmptyDict
    /\ ret' = get_builder_from_protocol(call.electronic_type, call.projection_type,
                                        call.disentanglement_type, call.frozen_type)
    /\ UNCHANGED <<workchain_vars, call>>

CallGetSemicoreList ==
    /\ call.f = "get_semicore_list"
    /\ ret = EmptyDict
    /\ ret' = get_semicore_list(call.sites, call.pseudo_orbitals)
    /\ UNCHANGED <<workchain_vars, call>>

NextFunctions ==
    \/ CallUpdateScdmMuSigma
    \/ CallGetBuilderFromProtocol
    \/ CallGetSemicoreList

SpecFunctions == InitFunctions /\ [][NextFunctions]_vars

(***************************************************************************)
(* Properties of the functions called on their own                         *)
(***************************************************************************)
Returned(f) == Has(call, "f") /\ call.f = f /\ ret # EmptyDict

\* C13: in what update_scdm_mu_sigma returns, a scdm_mu or scdm_sigma that was
\* given in inputpp has the given value, one that was missing has the fitted
\* value, and every other parameter, in inputpp and outside it, is as given.
C13_FillsInMissing ==
    Returned("update_scdm_mu_sigma") =>
        LET given == call.parameters
            new == ret.returned
        IN  /\ DOMAIN new = DOMAIN given
            /\ \A top \in DOMAIN given \ {"inputpp"} : new[top] = given[top]
            /\ DOMAIN new["inputpp"] = DOMAIN given["inputpp"] \cup {"scdm_mu", "scdm_sigma"}
            /\ \A k \in DOMAIN given["inputpp"] : new["inputpp"][k] = given["inputpp"][k]
            /\ ~Has(given["inputpp"], "scdm_mu") => new["inputpp"]["scdm_mu"] = call.fit.mu
            /\ ~Has(given["inputpp"], "scdm_sigma") =>
                  new["inputpp"]["scdm_sigma"] = call.fit.sigma

C13_Witness ==
    /\ Returned("update_scdm_mu_sigma")
    /\ Has(call.parameters["inputpp"], "scdm_mu")
    /\ ~Has(call.parameters["inputpp"], "scdm_sigma")
    /\ Has(call.parameters, "settings")
    /\ call.fit.mu # call.parameters["inputpp"]["scdm_mu"]
    /\ ret.returned["inputpp"]["scdm_mu"] = call.parameters["inputpp"]["scdm_mu"]
    /\ ret.returned["inputpp"]["scdm_sigma"] = call.fit.sigma

C15_FrozenType ==
    ( /\ Returned("get_builder_from_protocol")
      /\ call.frozen_type = "None"
      /\ ret.raised = "" )
    => /\ call.electronic_type \in {"INSULATOR", "METAL"}
       /\ call.electronic_type = "INSULATOR" => ret.frozen_type = "NONE"
       /\ call.electronic_type = "METAL" =>
             /\ call.projection_type \in {"ANALYTIC", "RANDOM"}
                   => ret.frozen_type = "ENERGY_FIXED"
             /\ call.projection_type \in {"ATOMIC_PROJECTORS_QE", "ATOMIC_PROJECTORS_OPENMX"}
                   => ret.frozen_type = "FIXED_PLUS_PROJECTABILITY"
             /\ call.projection_type = "SCDM" => ret.frozen_type = "NONE"

C15_Witness ==
    /\ Returned("get_builder_from_protocol")
    /\ call.frozen_type = "None"
    /\ call.electronic_type = "METAL"
    /\ call.projection_type = "ATOMIC_PROJECTORS_OPENMX"
    /\ call.disentanglement_type = "SMV"
    /\ ret.raised = ""
    /\ ret.frozen_type = "FIXED_PLUS_PROJECTABILITY"

\* the components of the pseudo-wavefunctions of all sites, in site order: for
\* each its site, its orbital and whether that orbital is a semicore orbital
RECURSIVE ComponentsOf(_, _, _, _)
ComponentsOf(sites, pseudo_orbitals, s, o) ==
    IF s > Len(sites) THEN << >>
    ELSE LET data == pseudo_orbitals[sites[s]]
         IN  IF o > Len(data.pswfcs) THEN ComponentsOf(sites, pseudo_orbitals, s + 1, 1)
             ELSE [k \in 1..label2num[data.pswfcs[o][2]] |->
                      \E j \in 1..Len(data.semicores) : data.semicores[j] = data.pswfcs[o]]
                  \o ComponentsOf(sites, pseudo_orbitals, s, o + 1)
RECURSIVE SemicoreComponentCount(_, _, _, _)
SemicoreComponentCount(sites, pseudo_orbitals, s, j) ==
    IF s > Len(sites) THEN 0
    ELSE LET data == pseudo_orbitals[sites[s]]
         IN  IF j > Len(data.semicores)
             THEN SemicoreComponentCount(sites, pseudo_orbitals, s + 1, 1)
             ELSE label2num[data.semicores[j][2]]
                  + SemicoreComponentCount(sites, pseudo_orbitals, s, j + 1)

\* C18: get_semicore_list returns the list of the 1-based indices of the
\* components of the semicore orbitals, counted over the sites in site order
\* with 1/3/5/7 indices for an S/P/D/F orbital: strictly increasing, within
\* 1..total number of components, as long as the sum of the component counts
\* of the semicore orbitals of all sites.
C18_SemicoreIndices ==
    Returned("get_semicore_list") =>
        LET components == ComponentsOf(call.sites, call.pseudo_orbitals, 1, 1)
            list == ret.semicore_list
        IN  /\ ret.returned = "list"
            /\ \A i \in 1..Len(list) : list[i] \in 1..Len(components)
            /\ \A i \in 1..(Len(list) - 1) : list[i] < list[i + 1]
            /\ {list[i] : i \in 1..Len(list)} = {c \in 1..Len(components) : components[c]}
            /\ Len(list) = SemicoreComponentCount(call.sites, call.pseudo_orbitals, 1, 1)

(***************************************************************************)
(* The node commands: gotocomputer and cleanworkdir (cli/node.py)          *)
(***************************************************************************)
MaxNodes == 3   \* nodes in the provenance graph, pk 1..MaxNodes
MaxGiven == 2   \* nodes given to cleanworkdir

NodeTypes == {"WorkChainNode", "CalcJobNode", "Data"}
LinkLabels == {"scf", "nscf"}

\* the provenance graphs of n nodes: node pk has a type and the workchain that
\* links to it (0 for none), which was created before it
RECURSIVE GraphsOf(_)
GraphsOf(n) ==
    IF n = 0 THEN {<< >>}
    ELSE UNION {{Append(g, [type |-> t, caller |-> c]) :
                    t \in NodeTypes,
                    c \in {0} \cup {w \in 1..(n - 1) : g[w].type = "WorkChainNode"}} :
                g \in GraphsOf(n - 1)}
\* the labels of the links to the nodes of g, "" for a node without caller
LabelsOf(g) ==
    {l \in [1..Len(g) -> LinkLabels \cup {""}] :
        \A pk \in 1..Len(g) : l[pk] = "" <=> g[pk].caller = 0}

\* node.called_descendants: what the node calls, and what those call
RECURSIVE CalledBy(_, _, _)
CalledBy(g, pk, d) ==
    IF d = 0 THEN FALSE
    ELSE g[d].caller = pk \/ CalledBy(g, pk, g[d].caller)
called_descendants(g, pk) ==
    {d \in 1..Len(g) : g[d].type # "Data" /\ CalledBy(g, pk, d)}

get_last_calcjob(g, workchain) ==
    LET calcs == {d \in called_descendants(g, workchain) : g[d].type = "CalcJobNode"}
    IN  IF calcs = {} THEN NoneVal ELSE Some(SetMax(calcs))

\* node.get_outgoing(): the nodes the node links to directly
get_outgoing(g, pk) == {d \in 1..Len(g) : g[d].caller = pk}

\* cmd_node_gotocomputer: the messages echoed, the calcjob whose remote folder
\* the shell is opened in, and the exception that ends the command
cmd_node_gotocomputer(g, labels, node, link_label) ==
    LET done(raised, echoed, opened) ==
            [raised |-> raised, echoed |-> echoed, opened |-> opened]
        goto(last_calcjob, label) ==
            IF IsNone(last_calcjob)
            THEN done("AttributeError", << >>, NoneVal)
            ELSE done("", <<[parent |-> node, calcjob |-> last_calcjob[1],
                             label |-> label]>>, last_calcjob)
    IN  IF g[node].type = "CalcJobNode" THEN done("", << >>, Some(node))
        ELSE IF g[node].type = "WorkChainNode"
        THEN IF IsNone(link_label)
             THEN LET last_calcjob == get_last_calcjob(g, node)
                      link == {x \in get_outgoing(g, node) :
                                  ~IsNone(last_calcjob) /\ x = last_calcjob[1]}
                  IN  IF link = {} THEN done("IndexError", << >>, NoneVal)
                      ELSE goto(last_calcjob, labels[last_calcjob[1]])
             ELSE LET found == {x \in get_outgoing(g, node) : labels[x] = link_label[1]}
                  IN  IF Cardinality(found) # 1
                      THEN done("", <<"No nodes found with call link label", "valid labels">>,
                                NoneVal)
                      ELSE LET called == CHOOSE x \in found : TRUE
                           IN  IF g[called].type = "CalcJobNode"
                               THEN goto(Some(called), link_label[1])
                               ELSE IF g[called].type = "WorkChainNode"
                               THEN goto(get_last_calcjob(g, called), link_label[1])
                               ELSE done("", <<"Unsupported type of node">>, NoneVal)
        ELSE done("", <<"Unsupported type of node">>, NoneVal)

GotoCalls ==
    UNION {{[f |-> "gotocomputer", graph |-> g, labels |-> l, node |-> n, link_label |-> ll] :
               l \in LabelsOf(g), n \in 1..MaxNodes,
               ll \in {NoneVal} \cup {Some(x) : x \in LinkLabels}} :
           g \in GraphsOf(MaxNodes)}

\* cmd_node_clean: for each given node in turn, the calculations whose _clean()
\* returned and what is echoed; failing[i] are the calculations whose _clean()
\* raises IOError, OSError or KeyError while node i is handled
CalcsOf(g, node) ==
    IF g[node].type = "CalcJobNode" THEN {node}
    ELSE IF g[node].type = "WorkChainNode"
    THEN {d \in called_descendants(g, node) : g[d].type = "CalcJobNode"}
    ELSE {}
cleaned_calcs_until_failure(g, node, failing) ==
    {c \in CalcsOf(g, node) : \A x \in failing : c < x}
cleaned_calcs(g, node, failing) == CalcsOf(g, node) \ failing
cmd_node_clean(g, nodes, failing) ==
    [i \in 1..Len(nodes) |->
        [node |-> nodes[i],
         unsupported |-> g[nodes[i]].type \notin {"CalcJobNode", "WorkChainNode"},
         cleaned |-> cleaned_calcs(g, nodes[i], failing[i]),
         echoed |-> cleaned_calcs(g, nodes[i], failing[i])]]

\* the _clean() calls the command makes: <<i, c>> is calculation c while the
\* i-th given node is handled
CleanCallsOf(g, nodes) ==
    UNION {{<<i, c>> : c \in CalcsOf(g, nodes[i])} : i \in 1..Len(nodes)}

GivenNodes == UNION {[1..n -> 1..MaxNodes] : n \in 1..MaxGiven}
CleanCalls ==
    [f : {"cleanworkdir"}, graph : GraphsOf(MaxNodes), nodes : GivenNodes]

InitCli ==
    /\ NoWorkChain
    /\ call \in GotoCalls \cup CleanCalls
    /\ ret = EmptyDict

CallGotoComputer ==
    /\ call.f = "gotocomputer"
    /\ ret = EmptyDict
    /\ ret' = cmd_node_gotocomputer(call.graph, call.labels, call.node, call.link_label)
    /\ UNCHANGED <<workchain_vars, call>>

CallCleanWorkdir ==
    /\ call.f = "cleanworkdir"
    /\ ret = EmptyDict
    /\ \E raising \in SubsetsUpTo(CleanCallsOf(call.graph, call.nodes), MaxCleanFailures) :
          LET failing == [i \in 1..Len(call.nodes) |-> {x[2] : x \in {y \in raising : y[1] = i}}]
          IN  ret' = [raising |-> failing,
                      done |-> cmd_node_clean(call.graph, call.nodes, failing)]
    /\ UNCHANGED <<workchain_vars, call>>

NextCli ==
    \/ CallGotoComputer
    \/ CallCleanWorkdir

SpecCli == InitCli /\ [][NextCli]_vars

(***************************************************************************)
(* Properties of the node commands                                         *)
(***************************************************************************)
\* the CalcJobNodes that pk calls through a chain of calls of any length
RECURSIVE KthCaller(_, _, _)
KthCaller(g, d, k) ==
    IF d = 0 THEN 0 ELSE IF k = 1 THEN g[d].caller ELSE KthCaller(g, g[d].caller, k - 1)
CalcJobDescendants(g, pk) ==
    {d \in 1..Len(g) :
        /\ g[d].type = "CalcJobNode"
        /\ \E k \in 1..Len(g) : KthCaller(g, d, k) = pk}

\* C16: gotocomputer without --link-label on a WorkChainNode that has a
\* CalcJobNode among its called descendants opens the shell for the descendant
\* CalcJobNode with the largest pk, at whatever call depth; on a CalcJobNode it
\* opens that node; on another node it echoes a message and opens nothing.
C16_OpensLastCalcjob ==
    Returned("gotocomputer") =>
        LET g == call.graph
            node == call.node
        IN  /\ g[node].type = "CalcJobNode" => ret.opened = Some(node)
            /\ ( /\ g[node].type = "WorkChainNode"
                 /\ IsNone(call.link_label)
                 /\ CalcJobDescendants(g, node) # {} )
               => ret.opened = Some(SetMax(CalcJobDescendants(g, node)))
            /\ g[node].type \notin {"CalcJobNode", "WorkChainNode"}
               => ret.opened = NoneVal /\ ret.echoed # << >>

\* C17: cleanworkdir cleans, for each given node, the node itself if it is a
\* CalcJobNode and its CalcJobNode descendants if it is a WorkChainNode, except
\* those whose cleaning raises, and nothing for a node of another type; what it
\* reports for the node is what it cleaned.
C17_CleansDespiteFailures ==
    Returned("cleanworkdir") =>
        \A i \in 1..Len(call.nodes) :
            LET g == call.graph
                node == call.nodes[i]
                target == IF g[node].type = "CalcJobNode" THEN {node}
                          ELSE IF g[node].type = "WorkChainNode"
                          THEN CalcJobDescendants(g, node)
                          ELSE {}
            IN  /\ ret.done[i].node = node
                /\ ret.done[i].cleaned = target \ ret.raising[i]
                /\ ret.done[i].echoed = ret.done[i].cleaned
                /\ ret.done[i].unsupported <=>
                      g[node].type \notin {"CalcJobNode", "WorkChainNode"}

C17_Witness ==
    /\ Returned("cleanworkdir")
    /\ Len(call.nodes) = 2
    /\ call.graph[call.nodes[1]].type = "WorkChainNode"
    /\ ret.raising[1] # {}
    /\ \E c \in ret.done[1].cleaned : \A x \in ret.raising[1] : x < c
    /\ ret.done[2].cleaned # {}

(***************************************************************************)
(* Termination of the workchain                                            *)
(***************************************************************************)
\* an outline step of the workchain, run by the engine when it is due
OutlineStep ==
    \/ Launch
    \/ setup
    \/ run_relax
    \/ inspect_relax
    \/ run_scf
    \/ inspect_scf
    \/ run_nscf
    \/ inspect_nscf
    \/ run_projwfc
    \/ inspect_projwfc
    \/ run_wannier90_pp
    \/ inspect_wannier90_pp
    \/ run_pw2wannier90
    \/ inspect_pw2wannier90
    \/ run_wannier90
    \/ inspect_wannier90
    \/ results

\* the engine runs the step that is due, and every submitted sub-process
\* eventually terminates
\* the inputs of the runs followed to their end: every choice of namespaces and
\* flags and the SCDM choices; clean_workdir, which acts only once the run has
\* ended, with the scf and nscf namespaces alone
LiveInputs ==
    {inp \in WorkflowInputs \cup ScdmInputs :
        inp["clean_workdir"] =>
            /\ DOMAIN inp \cap OptionalNamespaces = {"scf", "nscf"}
            /\ ~inp["relative_dis_windows"]
            /\ ~inp["auto_froz_max"]}
InitLive ==
    /\ Init
    /\ inputs \in LiveInputs
SpecLive ==
    /\ InitLive
    /\ [][Next]_vars
    /\ WF_vars(OutlineStep)
    /\ WF_vars(\E s \in StageSet : SubProcessTerminates(s))

\* C19: every run eventually terminates (finished, with or without exit code,
\* or excepted; or it was rejected at creation and never ran), and at every
\* moment at most seven sub-processes have been submitted, no stage twice.
C19_Terminates ==
    /\ <>(state \in {"finished", "excepted", "rejected"})
    /\ [](/\ Len(submitted) <= 7
          /\ \A i, j \in 1..Len(submitted) : i # j => submitted[i] # submitted[j])

C19_Witness ==
    /\ state = "finished"
    /\ pc = "stop"
    /\ Len(submitted) = 7

====
